---- MODULE Spec2Model ----
(***************************************************************************)
(* Model of the CashPilot Telegram bot: the cash-session command handlers  *)
(* (src/src/handlers/cash_session.py) on top of the CashPilot HTTP client  *)
(* (src/src/cashpilot_client.py), and UserState                            *)
(* (src/src/telegram_bot/bot.py).                                          *)
(*                                                                         *)
(* Spec            the commands as the dispatcher runs them, one at a time *)
(* ClientSpec      connect, disconnect and requests on the client          *)
(* FormatSpec      _format_currency on the amounts drawn                   *)
(* UserStateSpec   any sequence of calls on UserState                      *)
(* ConcurrentSpec  two commands of one user in flight together             *)
(*                                                                         *)
(* Strings that the code inspects character by character (command          *)
(* arguments, decimal strings in backend bodies, formatted amounts) are    *)
(* sequences of one-character strings.  Opaque strings (ids, names,        *)
(* machine codes) are TLA+ strings.                                        *)
(***************************************************************************)
EXTENDS Integers, Sequences, FiniteSets, TLC

None == "None"

-----------------------------------------------------------------------------
(* decimal.Decimal, as far as the handlers use it                          *)

Digits == <<"0", "1", "2", "3", "4", "5", "6", "7", "8", "9">>

IsDigit(c) == \E i \in 1..10 : Digits[i] = c

DigitVal(c) == (CHOOSE i \in 1..10 : Digits[i] = c) - 1

RECURSIVE Pow10(_)
Pow10(n) == IF n = 0 THEN 1 ELSE 10 * Pow10(n - 1)

RECURSIVE ToNat(_)
ToNat(ds) == IF ds = <<>> THEN 0
             ELSE 10 * ToNat(SubSeq(ds, 1, Len(ds) - 1)) + DigitVal(ds[Len(ds)])

RECURSIVE NatDigits(_)
NatDigits(n) == IF n < 10 THEN <<Digits[n + 1]>>
                ELSE NatDigits(n \div 10) \o <<Digits[(n % 10) + 1]>>

\* A Decimal is a finite number (sign, coefficient, number of fractional
\* digits), an infinity, or NaN.  InvalidOperation stands for the exception
\* decimal.InvalidOperation, which is an ArithmeticError, not a ValueError.
Num(neg, coef, exp) == [kind |-> "num", neg |-> neg, coef |-> coef, exp |-> exp]
Inf(neg) == [kind |-> "inf", neg |-> neg, coef |-> 0, exp |-> 0]
NaN == [kind |-> "nan", neg |-> FALSE, coef |-> 0, exp |-> 0]
InvalidOperation == [kind |-> "InvalidOperation", neg |-> FALSE, coef |-> 0, exp |-> 0]

DotPos(s) == IF \E i \in 1..Len(s) : s[i] = "."
             THEN CHOOSE i \in 1..Len(s) : s[i] = "."
             ELSE 0

\* Decimal(str): [sign] digits [. digits] | [sign] Infinity | [sign] NaN;
\* anything else raises InvalidOperation.  (Exponent notation is not among
\* the inputs drawn.)
Decimal(s) ==
    LET signed == s # <<>> /\ s[1] \in {"-", "+"}
        neg == s # <<>> /\ s[1] = "-"
        body == IF signed THEN Tail(s) ELSE s
        dot == DotPos(body)
        ip == IF dot = 0 THEN body ELSE SubSeq(body, 1, dot - 1)
        fp == IF dot = 0 THEN <<>> ELSE SubSeq(body, dot + 1, Len(body))
    IN  IF body = <<"N", "a", "N">> THEN NaN
        ELSE IF body = <<"I", "n", "f", "i", "n", "i", "t", "y">> THEN Inf(neg)
        ELSE IF /\ ip \o fp # <<>>
                /\ \A i \in 1..Len(ip) : IsDigit(ip[i])
                /\ \A i \in 1..Len(fp) : IsDigit(fp[i])
             THEN Num(neg, ToNat(ip \o fp), Len(fp))
        ELSE InvalidOperation

\* Comparisons with zero.  Ordering a NaN raises InvalidOperation; the
\* handlers test for NaN before they use these.
IsZero(d) == d.kind = "num" /\ d.coef = 0
GtZero(d) == (d.kind = "inf" /\ ~d.neg) \/ (d.kind = "num" /\ d.coef > 0 /\ ~d.neg)
LtZero(d) == (d.kind = "inf" /\ d.neg) \/ (d.kind = "num" /\ d.coef > 0 /\ d.neg)
LeZero(d) == ~GtZero(d)

Abs(d) == [d EXCEPT !.neg = FALSE]

-----------------------------------------------------------------------------
(* CashSessionManager._format_currency                                     *)

RECURSIVE PadZeros(_, _)
PadZeros(ds, n) == IF Len(ds) >= n THEN ds ELSE PadZeros(<<"0">> \o ds, n)

\* f"{n:,}".replace(",", "."): a "." before every complete group of three
\* digits counted from the right.
RECURSIVE Group(_)
Group(ds) == IF Len(ds) <= 3 THEN ds
             ELSE Group(SubSeq(ds, 1, Len(ds) - 3)) \o <<".">>
                    \o SubSeq(ds, Len(ds) - 2, Len(ds))

\* _format_currency without the conversion of an integral amount to int.
_format_currency_keep(amount) ==
    IF amount.kind # "num" THEN [ok |-> FALSE, text |-> <<>>]
    ELSE LET p == Pow10(amount.exp)
             ipart == amount.coef \div p
             fpart == amount.coef % p
             sign == IF amount.neg /\ amount.coef > 0 THEN <<"-">> ELSE <<>>
             formatted ==
                 IF amount.exp = 0
                 THEN sign \o Group(NatDigits(ipart))
                 ELSE sign \o Group(NatDigits(ipart)) \o <<".">>
                        \o PadZeros(NatDigits(fpart), amount.exp)
         IN  [ok |-> TRUE, text |-> formatted \o <<" ", "G", "s">>]

\* int(amount) raises for an infinity (OverflowError) and for NaN
\* (ValueError); the result then is [ok |-> FALSE].
_format_currency(amount) ==
    IF amount.kind # "num" THEN [ok |-> FALSE, text |-> <<>>]
    ELSE LET p == Pow10(amount.exp)
             ipart == amount.coef \div p
             fpart == amount.coef % p
             sign == IF amount.neg /\ amount.coef > 0 THEN <<"-">> ELSE <<>>
             formatted ==
                 IF fpart = 0
                 THEN (IF ipart = 0 THEN <<>> ELSE sign) \o Group(NatDigits(ipart))
                 ELSE sign \o Group(NatDigits(ipart)) \o <<".">>
                        \o PadZeros(NatDigits(fpart), amount.exp)
         IN  [ok |-> TRUE, text |-> formatted \o <<" ", "G", "s">>]

\* Bound: how many fractional digits the amounts drawn carry at most.
MaxFracDigits == 3

IntParts == { NatDigits(n) : n \in {0, 7, 12, 150, 999, 1000, 4321, 99999,
                                    500000, 1000000, 1200000, 12345678} }

FracParts == { f \in { <<>>, <<"5">>, <<"0", "0">>, <<"5", "0">>, <<"0", "5">>,
                       <<"2", "5">>, <<"0", "0", "0">>, <<"1", "2", "5">>,
                       <<"0", "1", "0">>, <<"0", "0", "0", "1">>,
                       <<"1", "2", "5", "0">> } : Len(f) <= MaxFracDigits }

\* Non-negative decimal strings as str(session.get(...)) yields them, of
\* at most nine digits.  (Decimal's format switches to exponent notation
\* only for amounts below 0.000001, which are not among the amounts drawn.)
FormatInputs == { pr[1] \o (IF pr[2] = <<>> THEN <<>> ELSE <<".">> \o pr[2]) :
                    pr \in { x \in IntParts \X FracParts :
                               Len(x[1]) + Len(x[2]) <= 9 } }

Amount(str) == [input |-> str, done |-> FALSE, text |-> <<>>]

-----------------------------------------------------------------------------
(* CashPilotClient                                                         *)

Absent == "Absent"

\* Bound: how many ClientSession objects connect() may create.
MaxSessions == 3

CsName == <<"cs1", "cs2", "cs3", "cs4", "cs5">>

\* The place in the pool of the session that self.session references.
CsIndex(sess) == CHOOSE i \in 1..Len(CsName) : CsName[i] = sess

\* Bound: how many distinct session ids the backend hands out.
NumSessionIds == 2

IdName == <<"s1", "s2", "s3", "s4">>

SessionIds == {IdName[i] : i \in 1..NumSessionIds}

Statuses == {200, 404, 409, 500}

Codes == {"CONFLICT", "NOT_FOUND", "INVALID_STATE"}

\* Decimal strings as the backend sends them.
BackendAmounts == { <<"0", ".", "0", "0">>,
                    <<"7", "0", "0", "0", "0", "0", ".", "0", "0">>,
                    <<"-", "5", "0", "0", "0", "0", "0", ".", "0", "0">> }

\* The parsed JSON object of a response.  Of a session record the handlers
\* read id, status, initial_cash, final_cash, total_sales and difference
\* (opened_at and closed_at are read for the clock time only and are left
\* out); of an error body _request reads code, message and detail.
Body(code, message, detail, id, status, initial_cash, final_cash, total_sales, difference) ==
    [code |-> code, message |-> message, detail |-> detail, id |-> id,
     status |-> status, initial_cash |-> initial_cash, final_cash |-> final_cash,
     total_sales |-> total_sales, difference |-> difference]

NoBody == Body(Absent, Absent, Absent, Absent, Absent, <<>>, <<>>, <<>>, <<>>)

\* What the transport produces for one request:
\*   reach = FALSE        no response arrived:
\*     shape = "none"       connection refused, reset, DNS: aiohttp.ClientError
\*     shape = "timeout"    the session's total timeout (connect() sets none,
\*                          so aiohttp's default of 300 s) ran out while the
\*                          response was awaited: asyncio.TimeoutError, which
\*                          is no aiohttp.ClientError
\*   shape = "object"     a JSON object
\*   shape = "array"      valid JSON that is not an object
\*   shape = "bad_json"   JSON content type, body does not parse
\*   shape = "not_json"   a content type other than JSON (an HTML error page)
Reply(reach, status, shape, body) ==
    [reach |-> reach, status |-> status, shape |-> shape, body |-> body]

Unreachable == Reply(FALSE, 0, "none", NoBody)

TimedOut == Reply(FALSE, 0, "timeout", NoBody)

\* str(data) of an error body that has neither message nor detail.
RawBody(body) == IF body.code = Absent THEN "{}" ELSE "{'code': ...}"

Return(data, isdict) ==
    [kind |-> "return", status |-> 0, code |-> "", message |-> "",
     data |-> data, isdict |-> isdict]

CashPilotAPIError(status, message, code) ==
    [kind |-> "CashPilotAPIError", status |-> status, code |-> code,
     message |-> message, data |-> NoBody, isdict |-> FALSE]

NoResult ==
    [kind |-> "none", status |-> 0, code |-> "", message |-> "",
     data |-> NoBody, isdict |-> FALSE]

\* Any exception that is not a CashPilotAPIError.
Exception ==
    [kind |-> "Exception", status |-> 0, code |-> "", message |-> "",
     data |-> NoBody, isdict |-> FALSE]

\* CashPilotClient._request, from the response on.  response.json() raises
\* aiohttp.ContentTypeError, a ClientError, for a non-JSON content type and
\* json.JSONDecodeError, a ValueError, for a body that does not parse;
\* data.get on a JSON value that is no object raises AttributeError.
_request(reply) ==
    IF ~reply.reach
    THEN IF reply.shape = "timeout"
         THEN Exception
         ELSE CashPilotAPIError(0, "Connection failed", "CONNECTION_ERROR")
    ELSE IF reply.shape = "not_json"
    THEN CashPilotAPIError(0, "Connection failed", "CONNECTION_ERROR")
    ELSE IF reply.shape = "bad_json"
    THEN Exception
    ELSE IF reply.status >= 400
    THEN IF reply.shape = "array"
         THEN Exception
         ELSE CashPilotAPIError(
                  reply.status,
                  IF reply.body.message # Absent THEN reply.body.message
                  ELSE IF reply.body.detail # Absent THEN reply.body.detail
                  ELSE RawBody(reply.body),
                  IF reply.body.code # Absent THEN reply.body.code ELSE "UNKNOWN_ERROR")
    ELSE Return(reply.body, reply.shape = "object")

-----------------------------------------------------------------------------
(* Telegram side: users, arguments, messages                               *)

Users == {"u1", "u2"}

\* update.effective_user.first_name (Telegram never leaves it empty).
first_name(u) == IF u = "u1" THEN "Maria" ELSE "Jose"

PLACEHOLDER_BUSINESS_ID == "375bfd5c-4c96-48a1-aef8-f6b7e61b4eeb"

\* Python truthiness of an optional string.
Falsy(x) == x \in {None, ""}

\* Amount arguments as typed by the user.
AmountArgs == { <<"5", "0", "0", "0", "0", "0">>,
                <<"0">>,
                <<"-", "5">>,
                <<"1", ".", "5", "0">>,
                <<"a", "b", "c">>,
                <<"N", "a", "N">>,
                <<"I", "n", "f", "i", "n", "i", "t", "y">> }

ShiftArgs == { <<"0", "8", ":", "0", "0", "-", "1", "6", ":", "0", "0">> }

OpenArgs == {<<>>} \cup {<<a>> : a \in AmountArgs}
                   \cup {<<a, h>> : a \in AmountArgs, h \in ShiftArgs}

CloseArgs == {<<>>} \cup {<<a>> : a \in AmountArgs}
                    \cup {<<a, b>> : a \in AmountArgs, b \in AmountArgs}

\* The exception classes an `except` clause is matched against.
Mro(exc) == IF exc = "InvalidOperation"
            THEN {"InvalidOperation", "DecimalException", "ArithmeticError", "Exception"}
            ELSE {exc, "Exception"}

Catches(clause, exc) == clause \in Mro(exc)

\* One send_message call: the template, its parameters, and whether
\* Telegram accepted it (ok = FALSE: send_message raised).
Msg(text, info, amounts, ok) ==
    [text |-> text, info |-> info, amounts |-> amounts, ok |-> ok]

\* Deliver with except clauses that swallow the error without a message.
Deliver_silent(m, inTry, generic, s1, s2) ==
    IF ~inTry THEN [msgs |-> <<>>, raised |-> FALSE]
    ELSE IF s1 THEN [msgs |-> <<[m EXCEPT !.ok = TRUE]>>, raised |-> FALSE]
    ELSE [msgs |-> <<[m EXCEPT !.ok = FALSE]>>, raised |-> FALSE]

\* The messages of one handler run.  A send that fails inside the try block
\* lands in `except Exception`, which sends the generic text; a send that
\* fails inside an except clause leaves the handler as an exception.
Deliver(m, inTry, generic, s1, s2) ==
    IF s1 THEN [msgs |-> <<[m EXCEPT !.ok = TRUE]>>, raised |-> FALSE]
    ELSE IF inTry
         THEN [msgs |-> <<[m EXCEPT !.ok = FALSE], Msg(generic, "", <<>>, s2)>>,
               raised |-> ~s2]
         ELSE [msgs |-> <<[m EXCEPT !.ok = FALSE]>>, raised |-> TRUE]

Call(op, business_id, cashier_name, amount, envelope_amount, shift_hours, session_id) ==
    [op |-> op, business_id |-> business_id, cashier_name |-> cashier_name,
     amount |-> amount, envelope_amount |-> envelope_amount,
     shift_hours |-> shift_hours, session_id |-> session_id]

NoCall == Call("none", None, None, NaN, NaN, <<>>, None)

\* What a handler does up to its first await of the client, or up to its
\* return: send a message (inside the try block or inside an except clause)
\* or call the client.
Send(text, inTry) == [act |-> "send", text |-> text, inTry |-> inTry, call |-> NoCall]
Invoke(call) == [act |-> "call", text |-> "", inTry |-> TRUE, call |-> call]

-----------------------------------------------------------------------------
(* UserState (src/src/telegram_bot/bot.py)                                 *)

BusinessIds == {"biz-id", "550e8400-e29b-41d4-a716-446655440000"}

BusinessNames == {"Test Biz"}

\* An entry of UserState.users; registered = FALSE stands for a key that is
\* not in the dict.
User(registered, business_id, business_name, open_session) ==
    [registered |-> registered, business_id |-> business_id,
     business_name |-> business_name, open_session |-> open_session]

Unregistered == User(FALSE, None, None, None)

-----------------------------------------------------------------------------
(* State                                                                   *)

VARIABLES
    user_data,   \* context.user_data of each user: business_id, current_session_id
    session,     \* CashPilotClient.session: None or the name of a ClientSession
    pool,        \* the aiohttp.ClientSession objects created so far: "live" or "closed"
    task,        \* the command the dispatcher is running, or ran last
    last,        \* the last operation made on the client directly
    fmt,         \* an amount and, once formatted, its text
    users,       \* UserState.users
    latest,      \* per user: the session id last set, "cleared" once it
                 \* was cleared, "never" before the first set
    running,     \* the handler tasks of one user that may be in flight together
    backend,     \* the backend's cash sessions of that user's business
    history      \* what the backend calls of one user's commands came to so far

vars == <<user_data, session, pool, task, last, fmt, users, latest, running, backend,
          history>>

\* The handlers and their client.
bot_vars == <<user_data, session, pool, task, last, history>>

\* What the command handlers leave alone.
aside == <<last, fmt, users, latest, running, backend>>

\* What the client leaves alone.
beside == <<user_data, task, fmt, users, latest, running, backend, history>>

\* One operation on the client: which session was referenced before it,
\* how many ClientSession objects it created, whether it raised (connect,
\* disconnect), and for a request the session it went to, whether that
\* session was live, and what _request returned or raised.
Op(op, before, created, raised, over, live, result) ==
    [op |-> op, before |-> before, created |-> created, raised |-> raised,
     over |-> over, live |-> live, result |-> result]

NoOp == Op("none", None, 0, FALSE, None, FALSE, NoResult)

NoHistory ==
    [opened |-> None, lastok |-> "none", closed |-> {}, reclosed |-> FALSE,
     failed |-> None, dropped |-> FALSE]

\* The dispatcher (Application.builder() defaults) runs one update at a time.
Task(pc, cmd, user, args, sid0, calls, replies, results, msgs, raised) ==
    [pc |-> pc, cmd |-> cmd, user |-> user, args |-> args, sid0 |-> sid0,
     calls |-> calls, replies |-> replies, results |-> results,
     msgs |-> msgs, raised |-> raised]

Idle == Task("idle", "none", "u1", <<>>, None, <<>>, <<>>, <<>>, <<>>, FALSE)

\* The user whose commands are followed, and the amounts of that user's
\* commands.
Cashier == "u1"

InitialCashArg == <<"5", "0", "0", "0", "0", "0">>
FinalCashArg == <<"5", "0", "0", "0", "0", "0">>

\* Two commands of one user may be in flight at a time.
Slots == {1, 2}

\* user_data starts without a tracked session.  No handler of the bot stores
\* a business_id; "u1" stands for a user whose user_data carries one (as the
\* test fixtures set it up), "u2" for a user whose user_data has none.
BotInit ==
    /\ user_data = [u \in Users |->
                      [business_id |-> IF u = "u1" THEN "biz-uuid-123" ELSE None,
                       current_session_id |-> None]]
    /\ session = None
    /\ pool = <<>>
    /\ task = Idle
    /\ last = NoOp
    /\ history = NoHistory

\* user_state = UserState(): nobody is registered.
UserStateInit ==
    /\ users = [u \in Users |-> Unregistered]
    /\ latest = [u \in Users |-> "never"]

\* No handler task is in flight and the backend has no session yet.
Quiet ==
    /\ running = [slot \in Slots |-> Idle]
    /\ backend = [id \in SessionIds |-> "NONE"]

Init ==
    /\ BotInit
    /\ fmt = Amount(<<"0">>)
    /\ UserStateInit
    /\ Quiet

\* The handler returned or raised: the messages it sent are recorded.
Finish(t, d) == [t EXCEPT !.pc = "done", !.msgs = d.msgs, !.raised = d.raised]

-----------------------------------------------------------------------------
(* /abrir_caja                                                             *)

\* OpenCheck with a lenient parse: an argument that is no decimal counts as 1.
OpenCheck_lenient(u, args) ==
    IF Len(args) < 1 THEN Send("OPEN_USAGE", TRUE)
    ELSE LET parsed == Decimal(args[1])
             initial_cash == IF parsed.kind = "InvalidOperation"
                             THEN Num(FALSE, 1, 0) ELSE parsed
             shift_hours == IF Len(args) > 1 THEN <<args[2]>> ELSE <<>>
             business_id == IF ~Falsy(user_data[u].business_id)
                            THEN user_data[u].business_id
                            ELSE PLACEHOLDER_BUSINESS_ID
         IN  IF initial_cash.kind = "InvalidOperation"
             THEN IF Catches("ValueError", "InvalidOperation")
                  THEN Send("OPEN_INVALID_NUMBER", FALSE)
                  ELSE Send("OPEN_GENERIC", FALSE)
             ELSE IF initial_cash.kind = "nan"
             THEN Send("OPEN_GENERIC", FALSE)
             ELSE IF LeZero(initial_cash)
             THEN Send("OPEN_NOT_POSITIVE", TRUE)
             ELSE IF Falsy(business_id)
             THEN Send("CONFIG_REQUIRED", TRUE)
             ELSE Invoke(Call("open_cash_session", business_id,
                              IF ~Falsy(first_name(u)) THEN first_name(u) ELSE "Unknown",
                              initial_cash, NaN, shift_hours, None))

\* handle_open_session up to the client call.
OpenCheck(u, args) ==
    IF Len(args) < 1 THEN Send("OPEN_USAGE", TRUE)
    ELSE LET initial_cash == Decimal(args[1])
             shift_hours == IF Len(args) > 1 THEN <<args[2]>> ELSE <<>>
             business_id == IF ~Falsy(user_data[u].business_id)
                            THEN user_data[u].business_id
                            ELSE PLACEHOLDER_BUSINESS_ID
         IN  IF initial_cash.kind = "InvalidOperation"
             THEN IF Catches("ValueError", "InvalidOperation")
                  THEN Send("OPEN_INVALID_NUMBER", FALSE)
                  ELSE Send("OPEN_GENERIC", FALSE)
             ELSE IF initial_cash.kind = "nan"
             THEN Send("OPEN_GENERIC", FALSE)
             ELSE IF LeZero(initial_cash)
             THEN Send("OPEN_NOT_POSITIVE", TRUE)
             ELSE IF Falsy(business_id)
             THEN Send("CONFIG_REQUIRED", TRUE)
             ELSE Invoke(Call("open_cash_session", business_id,
                              IF ~Falsy(first_name(u)) THEN first_name(u) ELSE "Unknown",
                              initial_cash, NaN, shift_hours, None))

\* OpenApiError without the CONFLICT case.
OpenApiError_generic(u, r) ==
    [sid |-> user_data[u].current_session_id, inTry |-> FALSE,
     msg |-> Msg("API_ERROR", r.message, <<>>, TRUE)]

\* The `except CashPilotAPIError` clause of handle_open_session.
OpenApiError(u, r) ==
    [sid |-> user_data[u].current_session_id, inTry |-> FALSE,
     msg |-> IF r.code = "CONFLICT"
             THEN Msg("OPEN_CONFLICT", "", <<>>, TRUE)
             ELSE Msg("API_ERROR", r.message, <<>>, TRUE)]

\* OpenResult without the assignment to current_session_id.
OpenResult_unset(u, r) ==
    IF r.kind = "CashPilotAPIError"
    THEN OpenApiError(u, r)
    ELSE IF r.kind = "Exception" \/ ~r.isdict \/ r.data.id = Absent
    THEN [sid |-> user_data[u].current_session_id, inTry |-> FALSE,
          msg |-> Msg("OPEN_GENERIC", "", <<>>, TRUE)]
    ELSE LET initial == Decimal(r.data.initial_cash)
             shown == _format_currency(initial)
         IN  IF initial.kind = "InvalidOperation" \/ ~shown.ok
             THEN [sid |-> user_data[u].current_session_id, inTry |-> FALSE,
                   msg |-> Msg("OPEN_GENERIC", "", <<>>, TRUE)]
             ELSE [sid |-> user_data[u].current_session_id, inTry |-> TRUE,
                   msg |-> Msg("OPEN_OK", r.data.id, <<shown.text>>, TRUE)]

\* handle_open_session from the client's result on: the tracked id once the
\* code before the first send_message has run, and that message.
OpenResult(u, r) ==
    IF r.kind = "CashPilotAPIError"
    THEN OpenApiError(u, r)
    ELSE IF r.kind = "Exception" \/ ~r.isdict \/ r.data.id = Absent
    THEN [sid |-> user_data[u].current_session_id, inTry |-> FALSE,
          msg |-> Msg("OPEN_GENERIC", "", <<>>, TRUE)]
    ELSE LET initial == Decimal(r.data.initial_cash)
             shown == _format_currency(initial)
         IN  IF initial.kind = "InvalidOperation" \/ ~shown.ok
             THEN [sid |-> r.data.id, inTry |-> FALSE,
                   msg |-> Msg("OPEN_GENERIC", "", <<>>, TRUE)]
             ELSE [sid |-> r.data.id, inTry |-> TRUE,
                   msg |-> Msg("OPEN_OK", r.data.id, <<shown.text>>, TRUE)]

-----------------------------------------------------------------------------
(* /cerrar_caja                                                            *)

\* CloseCheck with `final_cash < 0` for `final_cash <= 0`.
CloseCheck_lt(u, args) ==
    IF Len(args) < 2 THEN Send("CLOSE_USAGE", TRUE)
    ELSE LET final_cash == Decimal(args[1])
             envelope_amount == Decimal(args[2])
             session_id == user_data[u].current_session_id
         IN  IF final_cash.kind = "InvalidOperation"
                  \/ envelope_amount.kind = "InvalidOperation"
             THEN IF Catches("ValueError", "InvalidOperation")
                  THEN Send("CLOSE_INVALID_NUMBER", FALSE)
                  ELSE Send("CLOSE_GENERIC", FALSE)
             ELSE IF final_cash.kind = "nan"
             THEN Send("CLOSE_GENERIC", FALSE)
             ELSE IF LtZero(final_cash)
             THEN Send("CLOSE_INVALID_AMOUNT", TRUE)
             ELSE IF envelope_amount.kind = "nan"
             THEN Send("CLOSE_GENERIC", FALSE)
             ELSE IF LtZero(envelope_amount)
             THEN Send("CLOSE_INVALID_AMOUNT", TRUE)
             ELSE IF Falsy(session_id)
             THEN Send("CLOSE_NOTHING_OPEN", TRUE)
             ELSE Invoke(Call("close_cash_session", None, None,
                              final_cash, envelope_amount, <<>>, session_id))

\* handle_close_session up to the client call.
CloseCheck(u, args) ==
    IF Len(args) < 2 THEN Send("CLOSE_USAGE", TRUE)
    ELSE LET final_cash == Decimal(args[1])
             envelope_amount == Decimal(args[2])
             session_id == user_data[u].current_session_id
         IN  IF final_cash.kind = "InvalidOperation"
                  \/ envelope_amount.kind = "InvalidOperation"
             THEN IF Catches("ValueError", "InvalidOperation")
                  THEN Send("CLOSE_INVALID_NUMBER", FALSE)
                  ELSE Send("CLOSE_GENERIC", FALSE)
             ELSE IF final_cash.kind = "nan"
             THEN Send("CLOSE_GENERIC", FALSE)
             ELSE IF LeZero(final_cash)
             THEN Send("CLOSE_INVALID_AMOUNT", TRUE)
             ELSE IF envelope_amount.kind = "nan"
             THEN Send("CLOSE_GENERIC", FALSE)
             ELSE IF LtZero(envelope_amount)
             THEN Send("CLOSE_INVALID_AMOUNT", TRUE)
             ELSE IF Falsy(session_id)
             THEN Send("CLOSE_NOTHING_OPEN", TRUE)
             ELSE Invoke(Call("close_cash_session", None, None,
                              final_cash, envelope_amount, <<>>, session_id))

\* response.get(key, 0) followed by Decimal(...); an empty field is a
\* missing key.
GetDecimal(field) == IF field = <<>> THEN Num(FALSE, 0, 0) ELSE Decimal(field)

\* status_text with the shortage and overage labels exchanged.
status_text_swapped(difference) ==
    IF IsZero(difference) THEN "Cuadre perfecto"
    ELSE IF GtZero(difference) THEN "Sobrante"
    ELSE "Faltante"

\* The label of the close message.
status_text(difference) ==
    IF IsZero(difference) THEN "Cuadre perfecto"
    ELSE IF GtZero(difference) THEN "Faltante"
    ELSE "Sobrante"

\* CloseResult that drops the tracked id when the backend does not know the
\* session.
CloseResult_forget(u, r) ==
    IF r.kind = "CashPilotAPIError" /\ r.code = "NOT_FOUND"
    THEN [pop |-> TRUE, inTry |-> TRUE, msg |-> Msg("CLOSE_NOT_FOUND", "", <<>>, TRUE)]
    ELSE IF r.kind = "CashPilotAPIError"
    THEN [pop |-> FALSE, inTry |-> FALSE,
          msg |-> IF r.code = "INVALID_STATE"
                  THEN Msg("CLOSE_INVALID_STATE", "", <<>>, TRUE)
                  ELSE Msg("API_ERROR", r.message, <<>>, TRUE)]
    ELSE [pop |-> FALSE, inTry |-> FALSE, msg |-> Msg("CLOSE_GENERIC", "", <<>>, TRUE)]

\* handle_close_session from the client's result on: the first message, and
\* whether the code after that send_message (the pop of current_session_id)
\* is reached when the send succeeds.
CloseResult(u, r) ==
    IF r.kind = "CashPilotAPIError"
    THEN [pop |-> FALSE, inTry |-> FALSE,
          msg |-> IF r.code = "NOT_FOUND"
                  THEN Msg("CLOSE_NOT_FOUND", "", <<>>, TRUE)
                  ELSE IF r.code = "INVALID_STATE"
                  THEN Msg("CLOSE_INVALID_STATE", "", <<>>, TRUE)
                  ELSE Msg("API_ERROR", r.message, <<>>, TRUE)]
    ELSE IF r.kind = "Exception" \/ ~r.isdict
    THEN [pop |-> FALSE, inTry |-> FALSE, msg |-> Msg("CLOSE_GENERIC", "", <<>>, TRUE)]
    ELSE LET total_sales == GetDecimal(r.data.total_sales)
             difference == GetDecimal(r.data.difference)
             final == Decimal(r.data.final_cash)
             shown == <<_format_currency(Abs(difference)),
                        _format_currency(final),
                        _format_currency(total_sales)>>
         IN  IF \/ total_sales.kind = "InvalidOperation"
                \/ difference.kind \in {"InvalidOperation", "nan"}
                \/ r.data.final_cash = <<>>
                \/ final.kind = "InvalidOperation"
                \/ \E i \in 1..3 : ~shown[i].ok
             THEN [pop |-> FALSE, inTry |-> FALSE,
                   msg |-> Msg("CLOSE_GENERIC", "", <<>>, TRUE)]
             ELSE [pop |-> TRUE, inTry |-> TRUE,
                   msg |-> Msg("CLOSE_OK", status_text(difference),
                               <<shown[1].text, shown[2].text, shown[3].text>>, TRUE)]

-----------------------------------------------------------------------------
(* /estado                                                                 *)

\* StatusCheck without the test for a tracked session.
StatusCheck_unguarded(u) ==
    Invoke(Call("get_session", None, None, NaN, NaN, <<>>,
                user_data[u].current_session_id))

\* handle_status up to the client call.
StatusCheck(u) ==
    IF Falsy(user_data[u].current_session_id)
    THEN Send("STATUS_NOTHING_OPEN", TRUE)
    ELSE Invoke(Call("get_session", None, None, NaN, NaN, <<>>,
                     user_data[u].current_session_id))

\* handle_status from the client's result on.
StatusResult(u, r) ==
    IF r.kind = "CashPilotAPIError"
    THEN [inTry |-> FALSE, msg |-> Msg("API_ERROR", r.message, <<>>, TRUE)]
    ELSE IF r.kind = "Exception" \/ ~r.isdict \/ r.data.status = Absent
              \/ r.data.initial_cash = <<>>
    THEN [inTry |-> FALSE, msg |-> Msg("STATUS_GENERIC", "", <<>>, TRUE)]
    ELSE LET initial_cash == Decimal(r.data.initial_cash)
             final_cash == GetDecimal(r.data.final_cash)
             shown == IF r.data.status = "OPEN"
                      THEN _format_currency(initial_cash)
                      ELSE _format_currency(final_cash)
         IN  IF \/ initial_cash.kind = "InvalidOperation"
                \/ r.data.status # "OPEN" /\ final_cash.kind = "InvalidOperation"
                \/ ~shown.ok
             THEN [inTry |-> FALSE, msg |-> Msg("STATUS_GENERIC", "", <<>>, TRUE)]
             ELSE [inTry |-> TRUE,
                   msg |-> Msg(IF r.data.status = "OPEN" THEN "STATUS_OPEN"
                                                         ELSE "STATUS_CLOSED",
                               user_data[u].current_session_id, <<shown.text>>, TRUE)]

-----------------------------------------------------------------------------
(* The backend, seen from the client: any reply to any request             *)

ErrorBodies ==
    { Body(c, m, d, Absent, Absent, <<>>, <<>>, <<>>, <<>>) :
        c \in Codes \cup {Absent}, m \in {Absent, "msg"}, d \in {Absent, "det"} }

InitialCash == <<"5", "0", "0", "0", "0", "0", ".", "0", "0">>
FinalCash == <<"1", "2", "0", "0", "0", "0", "0", ".", "0", "0">>

\* Session records as section 3 of the specification describes them.
SessionBodies(op) ==
    IF op = "open_cash_session"
    THEN { Body(Absent, Absent, Absent, id, "OPEN", InitialCash, <<>>, <<>>, <<>>) :
             id \in SessionIds }
    ELSE IF op = "close_cash_session"
    THEN { Body(Absent, Absent, Absent, "s1", "CLOSED", InitialCash, FinalCash, ts, df) :
             ts \in {<<>>, FinalCash}, df \in BackendAmounts \cup {<<>>} }
    ELSE { Body(Absent, Absent, Absent, "s1", st, InitialCash, fc, <<>>, <<>>) :
             st \in {"OPEN", "CLOSED"}, fc \in {<<>>, FinalCash} }

Replies(op) ==
    {Unreachable, TimedOut}
      \cup { Reply(TRUE, st, sh, NoBody) :
               st \in Statuses, sh \in {"array", "bad_json", "not_json"} }
      \cup { Reply(TRUE, st, "object", b) : st \in Statuses \ {200}, b \in ErrorBodies }
      \cup { Reply(TRUE, 200, "object", b) : b \in SessionBodies(op) }

-----------------------------------------------------------------------------
(* Actions                                                                 *)

\* connect(): a new ClientSession, whatever self.session was.
Connected(p) == [session |-> CsName[Len(p) + 1], pool |-> Append(p, "live")]

\* _request connects first when self.session is None; a ClientSession
\* object, closed or not, is truthy.
AutoConnect(sess, p) == IF Falsy(sess) THEN Connected(p)
                        ELSE [session |-> sess, pool |-> p]

Start(cmd, u, args) ==
    Task("await", cmd, u, args, user_data[u].current_session_id,
         <<>>, <<>>, <<>>, <<>>, FALSE)

\* A handler runs from the dispatch of the command to its client call, or
\* to its end when it makes none.
Begin(cmd, u, args, c, generic, s1, s2) ==
    /\ task.pc = "idle"
    /\ IF c.act = "call"
       THEN /\ task' = [Start(cmd, u, args) EXCEPT !.calls = <<c.call>>]
            /\ session' = AutoConnect(session, pool).session
            /\ pool' = AutoConnect(session, pool).pool
            /\ UNCHANGED user_data
       ELSE /\ task' = Finish(Start(cmd, u, args),
                              Deliver(Msg(c.text, "", <<>>, TRUE), c.inTry, generic, s1, s2))
            /\ UNCHANGED <<user_data, session, pool>>
    /\ UNCHANGED aside

\* handle_open_session that refuses locally while a session id is tracked.
handle_open_session_guarded(u, args, s1, s2) ==
    Begin("open", u, args,
          IF ~Falsy(user_data[u].current_session_id)
          THEN Send("OPEN_CONFLICT", TRUE)
          ELSE OpenCheck(u, args),
          "OPEN_GENERIC", s1, s2)

handle_open_session(u, args, s1, s2) ==
    Begin("open", u, args, OpenCheck(u, args), "OPEN_GENERIC", s1, s2)

handle_close_session(u, args, s1, s2) ==
    Begin("close", u, args, CloseCheck(u, args), "CLOSE_GENERIC", s1, s2)

handle_status(u, s1, s2) ==
    Begin("status", u, <<>>, StatusCheck(u), "STATUS_GENERIC", s1, s2)

\* open_cash_session with a retry: after a network failure the handler
\* calls the client once more.
open_cash_session_retry(reply, s1, s2) ==
    /\ task.pc = "await" /\ task.cmd = "open"
    /\ LET u == task.user
           r == _request(reply)
           o == OpenResult(u, r)
       IN  IF r.code = "CONNECTION_ERROR" /\ Len(task.calls) < 2
           THEN /\ task' = [task EXCEPT !.calls = Append(@, @[1])]
                /\ UNCHANGED user_data
           ELSE /\ user_data' = [user_data EXCEPT ![u].current_session_id = o.sid]
                /\ task' = Finish([task EXCEPT !.replies = <<reply>>, !.results = <<r>>],
                                  Deliver(o.msg, o.inTry, "OPEN_GENERIC", s1, s2))
    /\ UNCHANGED <<session, pool>>
    /\ UNCHANGED aside

\* The client call of the running handler completes and the handler runs
\* to its end.
open_cash_session(reply, s1, s2) ==
    /\ task.pc = "await" /\ task.cmd = "open"
    /\ LET u == task.user
           r == _request(reply)
           o == OpenResult(u, r)
       IN  /\ user_data' = [user_data EXCEPT ![u].current_session_id = o.sid]
           /\ task' = Finish([task EXCEPT !.replies = <<reply>>, !.results = <<r>>],
                             Deliver(o.msg, o.inTry, "OPEN_GENERIC", s1, s2))
    /\ UNCHANGED <<session, pool>>
    /\ UNCHANGED aside

close_cash_session(reply, s1, s2) ==
    /\ task.pc = "await" /\ task.cmd = "close"
    /\ LET u == task.user
           r == _request(reply)
           o == CloseResult(u, r)
       IN  /\ user_data' = IF o.pop /\ s1
                           THEN [user_data EXCEPT ![u].current_session_id = None]
                           ELSE user_data
           /\ task' = Finish([task EXCEPT !.replies = <<reply>>, !.results = <<r>>],
                             Deliver(o.msg, o.inTry, "CLOSE_GENERIC", s1, s2))
    /\ UNCHANGED <<session, pool>>
    /\ UNCHANGED aside

\* get_session that drops the tracked id when the backend reports the
\* session as closed or unknown.
get_session_forget(reply, s1, s2) ==
    /\ task.pc = "await" /\ task.cmd = "status"
    /\ LET u == task.user
           r == _request(reply)
           o == StatusResult(u, r)
       IN  /\ task' = Finish([task EXCEPT !.replies = <<reply>>, !.results = <<r>>],
                             Deliver(o.msg, o.inTry, "STATUS_GENERIC", s1, s2))
           /\ user_data' = IF \/ r.kind = "return" /\ r.data.status = "CLOSED"
                              \/ r.kind = "CashPilotAPIError" /\ r.code = "NOT_FOUND"
                           THEN [user_data EXCEPT ![u].current_session_id = None]
                           ELSE user_data
    /\ UNCHANGED <<session, pool>>
    /\ UNCHANGED aside

get_session(reply, s1, s2) ==
    /\ task.pc = "await" /\ task.cmd = "status"
    /\ LET u == task.user
           r == _request(reply)
           o == StatusResult(u, r)
       IN  task' = Finish([task EXCEPT !.replies = <<reply>>, !.results = <<r>>],
                          Deliver(o.msg, o.inTry, "STATUS_GENERIC", s1, s2))
    /\ UNCHANGED <<user_data, session, pool>>
    /\ UNCHANGED aside

\* run_polling hands the next update to its handler only when the handler
\* of the previous one has returned or raised.
run_polling ==
    /\ task.pc = "done"
    /\ task' = Idle
    /\ UNCHANGED <<user_data, session, pool>>
    /\ UNCHANGED aside

\* Outcomes of the (at most two) send_message calls of one handler run.
Sends == {<<TRUE, TRUE>>, <<FALSE, TRUE>>, <<FALSE, FALSE>>}

Next ==
    \/ run_polling /\ UNCHANGED history
    \/ \E s \in Sends : LET s1 == s[1]  s2 == s[2] IN
        \/ \E u \in Users, args \in OpenArgs :
              handle_open_session(u, args, s1, s2) /\ UNCHANGED history
        \/ \E u \in Users, args \in CloseArgs :
              handle_close_session(u, args, s1, s2) /\ UNCHANGED history
        \/ \E u \in Users : handle_status(u, s1, s2) /\ UNCHANGED history
        \/ \E reply \in Replies("open_cash_session") :
              open_cash_session(reply, s1, s2) /\ UNCHANGED history
        \/ \E reply \in Replies("close_cash_session") :
              close_cash_session(reply, s1, s2) /\ UNCHANGED history
        \/ \E reply \in Replies("get_session") :
              get_session(reply, s1, s2) /\ UNCHANGED history

Spec == Init /\ [][Next]_vars

-----------------------------------------------------------------------------
(* The commands of one user, one at a time, with a record of what their    *)
(* backend calls came to                                                   *)

\* A backend call succeeded when the client method returned a JSON object.
Succeeded(t) ==
    /\ t.pc = "done" /\ t.results # <<>>
    /\ t.results[1].kind = "return" /\ t.results[1].isdict

\* The client method raised CashPilotAPIError.
FailedTyped(t) ==
    /\ t.pc = "done" /\ t.results # <<>>
    /\ t.results[1].kind = "CashPilotAPIError"

\* A close command whose two amounts pass validation.
ClosesValidly(t) ==
    /\ t.cmd = "close" /\ Len(t.args) >= 2
    /\ GtZero(Decimal(t.args[1])) /\ Decimal(t.args[1]).kind = "num"
    /\ ~LtZero(Decimal(t.args[2])) /\ Decimal(t.args[2]).kind = "num"

\* The record after a step that leaves the running command as t:
\*   opened    the id that the most recent successful open returned
\*   lastok    the command of the most recent successful backend call
\*   closed    the ids whose close succeeded (since an open returned them)
\*   reclosed  a close request went out for an id in closed
\*   failed    the id of the close request that failed with a typed error
\*             in the command before the running one
\*   dropped   the close command after such a failure sent no request for
\*             that id
Note(h, t) ==
    IF t.results = <<>>
    THEN \* the command has started
         [h EXCEPT
            !.reclosed = @ \/ (/\ t.cmd = "close" /\ t.calls # <<>>
                               /\ t.calls[1].session_id \in h.closed),
            !.dropped = @ \/ (/\ ClosesValidly(t) /\ h.failed # None
                              /\ \/ t.calls = <<>>
                                 \/ t.calls[1].session_id # h.failed),
            !.failed = IF t.pc = "done" THEN None ELSE @]
    ELSE \* its backend call has ended
         [h EXCEPT
            !.opened = IF t.cmd = "open" /\ Succeeded(t) THEN t.results[1].data.id ELSE @,
            !.lastok = IF Succeeded(t) THEN t.cmd ELSE @,
            !.closed = IF t.cmd = "close" /\ Succeeded(t)
                       THEN @ \cup {t.calls[1].session_id}
                       ELSE IF t.cmd = "open" /\ Succeeded(t)
                       THEN @ \ {t.results[1].data.id}
                       ELSE @,
            !.failed = IF t.cmd = "close" /\ FailedTyped(t)
                       THEN t.calls[1].session_id ELSE None]

HistoryOpenArgs == {<<InitialCashArg>>}

HistoryCloseArgs == {<<FinalCashArg, <<"0">> >>, <<FinalCashArg, <<"a", "b", "c">> >>}

HistoryNext ==
    \/ run_polling /\ UNCHANGED history
    \/ \E s \in Sends : LET s1 == s[1]  s2 == s[2] IN
        \/ \E args \in HistoryOpenArgs :
              handle_open_session(Cashier, args, s1, s2) /\ history' = Note(history, task')
        \/ \E args \in HistoryCloseArgs :
              handle_close_session(Cashier, args, s1, s2) /\ history' = Note(history, task')
        \/ handle_status(Cashier, s1, s2) /\ history' = Note(history, task')
        \/ \E reply \in Replies("open_cash_session") :
              open_cash_session(reply, s1, s2) /\ history' = Note(history, task')
        \/ \E reply \in Replies("close_cash_session") :
              close_cash_session(reply, s1, s2) /\ history' = Note(history, task')
        \/ \E reply \in Replies("get_session") :
              get_session(reply, s1, s2) /\ history' = Note(history, task')

HistorySpec == Init /\ [][HistoryNext]_vars

-----------------------------------------------------------------------------
(* The client driven directly: connect, disconnect and requests in any     *)
(* order                                                                   *)

connect ==
    /\ Len(pool) < MaxSessions
    /\ session' = Connected(pool).session
    /\ pool' = Connected(pool).pool
    /\ last' = Op("connect", session, 1, FALSE, None, FALSE, NoResult)
    /\ UNCHANGED beside

\* disconnect() closes the session that self.session references and keeps
\* the reference; closing a closed ClientSession does nothing.
disconnect ==
    /\ pool' = IF ~Falsy(session) THEN [pool EXCEPT ![CsIndex(session)] = "closed"]
                                  ELSE pool
    /\ last' = Op("disconnect", session, 0, FALSE, None, FALSE, NoResult)
    /\ UNCHANGED session
    /\ UNCHANGED beside

\* Any client method: _request from its first line.  A request on a closed
\* ClientSession raises RuntimeError('Session is closed') before anything
\* is sent; RuntimeError is no aiohttp.ClientError.
request(reply) ==
    LET c == AutoConnect(session, pool)
        live == c.pool[CsIndex(c.session)] = "live"
    IN  /\ Falsy(session) => Len(pool) < MaxSessions
        /\ session' = c.session
        /\ pool' = c.pool
        /\ last' = Op("request", session, Len(c.pool) - Len(pool), FALSE, c.session, live,
                      IF live THEN _request(reply) ELSE Exception)
        /\ UNCHANGED beside

ClientNext ==
    \/ connect
    \/ disconnect
    \/ \E reply \in Replies("get_session") : request(reply)

ClientSpec == Init /\ [][ClientNext]_vars

-----------------------------------------------------------------------------
(* _format_currency applied to the amounts drawn                           *)

FormatInit ==
    /\ BotInit
    /\ fmt \in {Amount(a) : a \in FormatInputs}
    /\ UserStateInit
    /\ Quiet

format_currency ==
    /\ ~fmt.done
    /\ fmt' = [fmt EXCEPT !.done = TRUE,
                          !.text = _format_currency(Decimal(fmt.input)).text]
    /\ UNCHANGED bot_vars
    /\ UNCHANGED <<users, latest, running, backend>>

FormatNext == format_currency

FormatSpec == FormatInit /\ [][FormatNext]_vars

-----------------------------------------------------------------------------
(* UserState driven by any sequence of calls                               *)

\* self.users.get(user_id); Unregistered stands for None.
get_user(user_id) == users[user_id]

\* register_user stores a new dict under the key, whatever was there.
register_user(user_id, business_id, business_name) ==
    /\ users' = [users EXCEPT ![user_id] = User(TRUE, business_id, business_name, None)]
    /\ UNCHANGED latest
    /\ UNCHANGED <<bot_vars, fmt, running, backend>>

set_open_session(user_id, session_id) ==
    /\ IF users[user_id].registered
       THEN /\ users' = [users EXCEPT ![user_id].open_session = session_id]
            /\ latest' = [latest EXCEPT ![user_id] = session_id]
       ELSE UNCHANGED <<users, latest>>
    /\ UNCHANGED <<bot_vars, fmt, running, backend>>

clear_open_session(user_id) ==
    /\ IF users[user_id].registered
       THEN /\ users' = [users EXCEPT ![user_id].open_session = None]
            /\ latest' = [latest EXCEPT ![user_id] = "cleared"]
       ELSE UNCHANGED <<users, latest>>
    /\ UNCHANGED <<bot_vars, fmt, running, backend>>

UserStateNext ==
    \/ \E u \in Users, b \in BusinessIds, n \in BusinessNames : register_user(u, b, n)
    \/ \E u \in Users, sid \in SessionIds : set_open_session(u, sid)
    \/ \E u \in Users : clear_open_session(u)

UserStateSpec == Init /\ [][UserStateNext]_vars

-----------------------------------------------------------------------------
(* Two commands of one user in flight together: each handler is a          *)
(* coroutine that is suspended at its client call, and nothing in the      *)
(* handlers keeps a second command of the user from running meanwhile      *)

ClosedBody(id) ==
    Body(Absent, Absent, Absent, id, "CLOSED", InitialCash, FinalCash, FinalCash,
         <<"0", ".", "0", "0">>)

OpenBody(id) == Body(Absent, Absent, Absent, id, "OPEN", InitialCash, <<>>, <<>>, <<>>)

ErrorBody(code) == Body(code, "msg", Absent, Absent, Absent, <<>>, <<>>, <<>>, <<>>)

\* The backend as the handlers expect it: one open session per business
\* (CONFLICT otherwise), close of an unknown session is NOT_FOUND, close of
\* a closed one INVALID_STATE.  A new session gets the first unused id.
Serve(call, be) ==
    IF call.op = "open_cash_session"
    THEN IF \E id \in SessionIds : be[id] = "OPEN"
         THEN [reply |-> Reply(TRUE, 409, "object", ErrorBody("CONFLICT")), backend |-> be]
         ELSE LET n == CHOOSE i \in 1..NumSessionIds :
                          /\ be[IdName[i]] = "NONE"
                          /\ \A j \in 1..(i - 1) : be[IdName[j]] # "NONE"
              IN  [reply |-> Reply(TRUE, 200, "object", OpenBody(IdName[n])),
                   backend |-> [be EXCEPT ![IdName[n]] = "OPEN"]]
    ELSE IF call.session_id \notin SessionIds \/ be[call.session_id] = "NONE"
         THEN [reply |-> Reply(TRUE, 404, "object", ErrorBody("NOT_FOUND")), backend |-> be]
         ELSE IF be[call.session_id] = "CLOSED"
         THEN [reply |-> Reply(TRUE, 409, "object", ErrorBody("INVALID_STATE")), backend |-> be]
         ELSE [reply |-> Reply(TRUE, 200, "object", ClosedBody(call.session_id)),
               backend |-> [be EXCEPT ![call.session_id] = "CLOSED"]]

\* A handler starts and runs to its client call, or to its end when it
\* makes none.
dispatch(slot, cmd, args) ==
    /\ running[slot].pc = "idle"
    /\ LET c == IF cmd = "open" THEN OpenCheck(Cashier, args) ELSE CloseCheck(Cashier, args)
           generic == IF cmd = "open" THEN "OPEN_GENERIC" ELSE "CLOSE_GENERIC"
       IN  IF c.act = "call"
           THEN /\ running' = [running EXCEPT ![slot] =
                                  [Start(cmd, Cashier, args) EXCEPT !.calls = <<c.call>>]]
                /\ session' = AutoConnect(session, pool).session
                /\ pool' = AutoConnect(session, pool).pool
           ELSE /\ running' = [running EXCEPT ![slot] =
                                  Finish(Start(cmd, Cashier, args),
                                         Deliver(Msg(c.text, "", <<>>, TRUE), c.inTry,
                                                 generic, TRUE, TRUE))]
                /\ UNCHANGED <<session, pool>>
    /\ UNCHANGED <<user_data, backend, task, last, fmt, users, latest, history>>

\* The backend handles the request of a suspended handler; the response is
\* on its way.
serve(slot) ==
    /\ running[slot].pc = "await" /\ running[slot].replies = <<>>
    /\ LET call == running[slot].calls[1]
       IN  /\ call.op = "open_cash_session" /\ (\A id \in SessionIds : backend[id] # "OPEN")
                 => \E id \in SessionIds : backend[id] = "NONE"
           /\ running' = [running EXCEPT ![slot].replies = <<Serve(call, backend).reply>>]
           /\ backend' = Serve(call, backend).backend
    /\ UNCHANGED <<user_data, session, pool, task, last, fmt, users, latest, history>>

\* The response arrives: the handler resumes after its await and runs to
\* its end.
resume(slot) ==
    /\ running[slot].pc = "await" /\ running[slot].replies # <<>>
    /\ LET t == running[slot]
           r == _request(t.replies[1])
       IN  IF t.cmd = "open"
           THEN LET o == OpenResult(Cashier, r)
                IN  /\ user_data' = [user_data EXCEPT ![Cashier].current_session_id = o.sid]
                    /\ running' = [running EXCEPT ![slot] =
                                      Finish([t EXCEPT !.results = <<r>>],
                                             Deliver(o.msg, o.inTry, "OPEN_GENERIC", TRUE, TRUE))]
           ELSE LET o == CloseResult(Cashier, r)
                IN  /\ user_data' = IF o.pop
                                    THEN [user_data EXCEPT ![Cashier].current_session_id = None]
                                    ELSE user_data
                    /\ running' = [running EXCEPT ![slot] =
                                      Finish([t EXCEPT !.results = <<r>>],
                                             Deliver(o.msg, o.inTry, "CLOSE_GENERIC", TRUE, TRUE))]
    /\ UNCHANGED <<backend, session, pool, task, last, fmt, users, latest, history>>

\* The handler's task is over; the user may send another command.
retire(slot) ==
    /\ running[slot].pc = "done"
    /\ running' = [running EXCEPT ![slot] = Idle]
    /\ UNCHANGED <<user_data, backend, session, pool, task, last, fmt, users, latest, history>>

ConcurrentNext ==
    \/ \E slot \in Slots : dispatch(slot, "open", <<InitialCashArg>>)
    \/ \E slot \in Slots : dispatch(slot, "close", <<FinalCashArg, <<"0">> >>)
    \/ \E slot \in Slots : serve(slot)
    \/ \E slot \in Slots : resume(slot)
    \/ \E slot \in Slots : retire(slot)

ConcurrentSpec == Init /\ [][ConcurrentNext]_vars

-----------------------------------------------------------------------------
(* Properties                                                              *)

Ran(cmd) == task.pc \in {"await", "done"} /\ task.cmd = cmd

Linkage == user_data[task.user].current_session_id

\* An argument that is no number: Decimal() raises on it, or it is NaN.
\* ("Infinity" parses to a Decimal that compares greater than 0.)
NonNumeric(a) == Decimal(a).kind \in {"InvalidOperation", "nan"}

Numeric(a) == ~NonNumeric(a)

\* The amount arguments of the command that runs.
AmountsGiven ==
    IF task.cmd = "open" THEN {task.args[i] : i \in 1..(IF Len(task.args) >= 1 THEN 1 ELSE 0)}
    ELSE IF task.cmd = "close" THEN {task.args[i] : i \in 1..(IF Len(task.args) >= 2 THEN 2 ELSE Len(task.args))}
    ELSE {}

\* C1: an open or close command with a non-numeric amount argument makes no
\* client call (neither open_cash_session nor close_cash_session) and leaves
\* current_session_id as it was.
C1_NonNumericRejected ==
    (Ran("open") \/ Ran("close")) /\ (\E a \in AmountsGiven : NonNumeric(a))
        => /\ task.pc = "done"
           /\ task.calls = <<>>
           /\ Linkage = task.sid0

\* C1 witness: a close command whose first amount is fine and whose second
\* is no number has run for a user with a tracked session.
C1_Witness ==
    /\ task.pc = "done" /\ task.cmd = "close" /\ Len(task.args) = 2
    /\ GtZero(Decimal(task.args[1]))
    /\ Decimal(task.args[2]).kind = "InvalidOperation"
    /\ task.sid0 # None
    /\ task.calls = <<>>

\* C2 (as claimed): an open command with an amount <= 0 makes no client call;
\* with an amount > 0 it calls open_cash_session exactly once with that
\* decimal value, the business id configured for the user, the caller's
\* first name and the optional second argument as shift hours.
C2_OpenCallExact ==
    Ran("open") /\ Len(task.args) >= 1 /\ Numeric(task.args[1])
        => LET a == Decimal(task.args[1])
           IN  /\ LeZero(a) => task.calls = <<>>
               /\ GtZero(a) =>
                    task.calls = <<Call("open_cash_session",
                                        user_data[task.user].business_id,
                                        first_name(task.user), a, NaN,
                                        IF Len(task.args) > 1 THEN <<task.args[2]>> ELSE <<>>,
                                        None)>>

\* C3: the close command calls close_cash_session only with final_cash > 0
\* and envelope_amount >= 0; with final_cash <= 0 or envelope_amount < 0 it
\* makes no client call and leaves current_session_id as it was.
C3_CloseAmountsValidated ==
    Ran("close") =>
        /\ task.calls # <<>> =>
              /\ Len(task.args) >= 2
              /\ Numeric(task.args[1]) /\ GtZero(Decimal(task.args[1]))
              /\ Numeric(task.args[2]) /\ ~LtZero(Decimal(task.args[2]))
              /\ task.calls[1].amount = Decimal(task.args[1])
              /\ task.calls[1].envelope_amount = Decimal(task.args[2])
        /\ (/\ Len(task.args) >= 2
            /\ \/ Numeric(task.args[1]) /\ LeZero(Decimal(task.args[1]))
               \/ Numeric(task.args[2]) /\ LtZero(Decimal(task.args[2])))
              => /\ task.pc = "done"
                 /\ task.calls = <<>>
                 /\ Linkage = task.sid0

\* C3 witness: a close command with final_cash = 0 and a fine envelope
\* amount was rejected for a user with a tracked session.
C3_Witness ==
    /\ task.pc = "done" /\ task.cmd = "close" /\ Len(task.args) = 2
    /\ IsZero(Decimal(task.args[1]))
    /\ GtZero(Decimal(task.args[2]))
    /\ task.sid0 # None
    /\ task.msgs[1].text = "CLOSE_INVALID_AMOUNT"

\* The close command that runs has two amounts that pass validation.
ValidCloseArgs ==
    /\ Len(task.args) >= 2
    /\ Numeric(task.args[1]) /\ GtZero(Decimal(task.args[1]))
    /\ Numeric(task.args[2]) /\ ~LtZero(Decimal(task.args[2]))

\* C4: with no tracked session id, a close command with valid amounts and a
\* status command answer 'nothing open', call neither close_cash_session nor
\* get_session, and leave the linkage empty.
C4_NothingOpenIsLocal ==
    /\ Ran("close") /\ ValidCloseArgs /\ task.sid0 = None
          => /\ task.pc = "done"
             /\ task.calls = <<>>
             /\ task.msgs[1].text = "CLOSE_NOTHING_OPEN"
             /\ Linkage = None
    /\ Ran("status") /\ task.sid0 = None
          => /\ task.pc = "done"
             /\ task.calls = <<>>
             /\ task.msgs[1].text = "STATUS_NOTHING_OPEN"
             /\ Linkage = None

\* C4 witness: a status command was answered 'nothing open' for a user
\* without a tracked session, after the client had been in use.
C4_Witness ==
    /\ task.pc = "done" /\ task.cmd = "status" /\ task.sid0 = None
    /\ task.msgs[1].text = "STATUS_NOTHING_OPEN" /\ task.msgs[1].ok
    /\ session = "cs1" /\ pool = <<"live">>

\* The client call of the command that ran returned a JSON object.
Returned ==
    /\ task.pc = "done" /\ task.results # <<>>
    /\ task.results[1].kind = "return" /\ task.results[1].isdict

\* C5: when open_cash_session returns a session record, the open command
\* ends with current_session_id equal to the id in that record.
C5_OpenSetsLinkage ==
    Ran("open") /\ Returned => Linkage = task.replies[1].body.id

\* C5 witness: an open command replaced a tracked id by a different one
\* although its success message could not be delivered.
C5_Witness ==
    /\ Ran("open") /\ Returned
    /\ task.sid0 # None /\ task.sid0 # task.replies[1].body.id
    /\ ~task.msgs[1].ok

\* C6 (as claimed): when close_cash_session returns a session record, the
\* close command ends with current_session_id cleared, whatever happens
\* while the result is rendered and sent.
C6_CloseClearsLinkage ==
    Ran("close") /\ Returned => Linkage = None

\* The client call of the command that ran raised CashPilotAPIError with
\* this code.
Failed(code) ==
    /\ task.pc = "done" /\ task.results # <<>>
    /\ task.results[1].kind = "CashPilotAPIError" /\ task.results[1].code = code

\* C7: an open command issued while a session id is tracked and answered
\* with the CONFLICT error leaves current_session_id as it was and sends
\* the conflict warning, not the generic error text.
C7_ConflictKeepsLinkage ==
    Ran("open") /\ task.sid0 # None /\ Failed("CONFLICT")
        => /\ Linkage = task.sid0
           /\ Len(task.msgs) = 1
           /\ task.msgs[1].text = "OPEN_CONFLICT"

\* C7 witness: such an open command has run and its warning was delivered.
C7_Witness ==
    /\ Ran("open") /\ task.sid0 # None /\ Failed("CONFLICT")
    /\ task.replies[1].status = 409
    /\ task.msgs[1].ok

\* C8 (as claimed): for a user without business_id every open, close and
\* status command (with arguments that pass validation) is answered with
\* the configuration-required error and makes no client call.
C8_NoBusinessRejected ==
    (/\ user_data[task.user].business_id = None
     /\ \/ Ran("open") /\ Len(task.args) >= 1 /\ Numeric(task.args[1])
                       /\ GtZero(Decimal(task.args[1]))
        \/ Ran("close") /\ ValidCloseArgs
        \/ Ran("status"))
        => /\ task.pc = "done"
           /\ task.calls = <<>>
           /\ task.msgs[1].text = "CONFIG_REQUIRED"

\* Sign of a decimal string as the backend writes it.
NegativeStr(str) == str[1] = "-" /\ \E i \in 2..Len(str) : str[i] \notin {"0", "."}
ZeroStr(str) == \A i \in 1..Len(str) : str[i] \in {"0", ".", "-"}

\* C9: the message of a successful close carries the label chosen by the
\* sign of the difference field of the backend's record (0: 'Cuadre
\* perfecto', > 0: 'Faltante', < 0: 'Sobrante') and shows the absolute value
\* of that field.
C9_CloseClassification ==
    Ran("close") /\ Returned /\ task.replies[1].body.difference # <<>>
        => LET df == task.replies[1].body.difference
               m == task.msgs[1]
           IN  /\ m.text = "CLOSE_OK"
               /\ m.info = IF ZeroStr(df) THEN "Cuadre perfecto"
                           ELSE IF NegativeStr(df) THEN "Sobrante"
                           ELSE "Faltante"
               /\ m.amounts[1] = _format_currency(Decimal(IF df[1] = "-" THEN Tail(df) ELSE df)).text

\* C9 witness: a close answered with difference -500000.00 showed
\* 'Sobrante' with 500.000 Gs.
C9_Witness ==
    /\ Ran("close") /\ Returned
    /\ task.replies[1].body.difference = <<"-", "5", "0", "0", "0", "0", "0", ".", "0", "0">>
    /\ task.msgs[1].info = "Sobrante"
    /\ task.msgs[1].amounts[1] = <<"5", "0", "0", ".", "0", "0", "0", " ", "G", "s">>

\* C10 (as claimed): the error the client raises has status 0 and code
\* CONNECTION_ERROR exactly when the backend was unreachable, and when the
\* backend answered with a status >= 400 the error carries that status.
C10_ConnectionErrorDistinct ==
    task.pc = "done" /\ task.replies # <<>>
        => LET rp == task.replies[1]
               r == task.results[1]
           IN  /\ (r.kind = "CashPilotAPIError" /\ r.status = 0
                      /\ r.code = "CONNECTION_ERROR") <=> ~rp.reach
               /\ rp.reach /\ rp.status >= 400
                    => r.kind = "CashPilotAPIError" /\ r.status = rp.status

\* C11 (as claimed): for a response with status >= 400 _request raises one
\* CashPilotAPIError whose status is the HTTP status, whose code is the
\* body's code or UNKNOWN_ERROR, and whose message is the body's message,
\* else its detail, else the raw body; for a response with status < 400 it
\* returns the parsed body and raises nothing.
C11_ErrorNormalized ==
    task.pc = "done" /\ task.replies # <<>> /\ task.replies[1].reach
        => LET rp == task.replies[1]
               r == task.results[1]
           IN  IF rp.status >= 400
               THEN /\ r.kind = "CashPilotAPIError"
                    /\ r.status = rp.status
                    /\ r.code = IF rp.body.code # Absent THEN rp.body.code
                                                         ELSE "UNKNOWN_ERROR"
                    /\ r.message = IF rp.body.message # Absent THEN rp.body.message
                                   ELSE IF rp.body.detail # Absent THEN rp.body.detail
                                   ELSE RawBody(rp.body)
               ELSE /\ r.kind = "return"
                    /\ r.data = rp.body

\* C15: a command makes at most one client call and the call makes at most
\* one request; after a request that failed the handler ends without
\* another one.
C15_AtMostOneRequest ==
    /\ Len(task.calls) <= 1
    /\ Len(task.replies) <= Len(task.calls)
    /\ Len(task.results) = Len(task.replies)
    /\ task.results # <<>> /\ task.results[1].kind # "return" => task.pc = "done"

\* C15 witness: an open command whose request failed on the network ended
\* with that one request.
C15_Witness ==
    /\ task.pc = "done" /\ task.cmd = "open"
    /\ Len(task.calls) = 1 /\ Len(task.replies) = 1
    /\ task.replies[1] = Unreachable
    /\ task.results[1].code = "CONNECTION_ERROR"

\* C16 (as claimed): an open or close command with a non-numeric amount
\* argument is answered with the validation message ('must be a valid
\* number', with a usage example), not with the generic 'try again later'
\* text.
C16_NonNumericGetsValidationText ==
    /\ task.pc = "done" /\ task.cmd = "open" /\ Len(task.args) >= 1
       /\ NonNumeric(task.args[1])
          => task.msgs[1].text = "OPEN_INVALID_NUMBER"
    /\ task.pc = "done" /\ task.cmd = "close" /\ Len(task.args) >= 2
       /\ (NonNumeric(task.args[1]) \/ NonNumeric(task.args[2]))
          => task.msgs[1].text = "CLOSE_INVALID_NUMBER"

\* C17 (as claimed): when the timeout of a request runs out before a
\* response arrives, the client raises CashPilotAPIError with status 0 and
\* code CONNECTION_ERROR, never another exception.
C17_TimeoutIsConnectionError ==
    task.pc = "done" /\ task.replies # <<>> /\ task.replies[1] = TimedOut
        => /\ task.results[1].kind = "CashPilotAPIError"
           /\ task.results[1].status = 0
           /\ task.results[1].code = "CONNECTION_ERROR"

\* C20: when no send_message call fails, a command that has run has sent
\* exactly one message and its handler has not raised.
C20_ExactlyOneMessage ==
    task.pc = "done" /\ (\A i \in 1..Len(task.msgs) : task.msgs[i].ok)
        => Len(task.msgs) = 1 /\ ~task.raised

\* C20 witness: a close command that the backend answered with NOT_FOUND
\* sent the one message of that except clause.
C20_Witness ==
    /\ task.pc = "done" /\ task.cmd = "close" /\ Failed("NOT_FOUND")
    /\ Len(task.msgs) = 1
    /\ task.msgs[1].text = "CLOSE_NOT_FOUND" /\ task.msgs[1].ok

\* The ClientSession objects that are open.
LiveSessions == {i \in 1..Len(pool) : pool[i] = "live"}

\* C12 (as claimed): connect on a client that holds a live session creates
\* no second session, connect never raises, and after a connect exactly one
\* live session exists.
C12_ConnectIdempotent ==
    last.op = "connect"
        => /\ ~last.raised
           /\ Cardinality(LiveSessions) = 1
           /\ last.before # None /\ pool[CsIndex(last.before)] = "live"
                 => last.created = 0

\* C13 (as claimed): every request goes out over a live session, a request
\* on a client that is not connected (never connected, or disconnected)
\* connects first, and disconnect never raises.
C13_RequestsOverLiveSession ==
    /\ last.op = "request" => last.live /\ pool[CsIndex(last.over)] = "live"
    /\ last.op = "disconnect" => ~last.raised

\* The integer digits and the fractional digits of the amount drawn.
GivenInt == LET d == DotPos(fmt.input)
            IN  IF d = 0 THEN fmt.input ELSE SubSeq(fmt.input, 1, d - 1)

GivenFrac == LET d == DotPos(fmt.input)
             IN  IF d = 0 THEN <<>> ELSE SubSeq(fmt.input, d + 1, Len(fmt.input))

Integral == \A i \in 1..Len(GivenFrac) : GivenFrac[i] = "0"

\* C18: _format_currency renders a non-negative amount as its integer
\* digits with a "." before every group of three counted from the right,
\* then, for a non-integral amount only, "." and the fractional digits
\* exactly as given, then " Gs"; 500000 gives '500.000 Gs', 1200000 gives
\* '1.200.000 Gs', 150 gives '150 Gs', 1000000.50 gives '1.000.000.50 Gs'.
C18_FormatCurrency ==
    fmt.done =>
        LET n == Len(GivenInt)
            tail == IF Integral THEN <<>> ELSE <<".">> \o GivenFrac
            len == n + ((n - 1) \div 3)
            text == fmt.text
        IN  /\ Len(text) = len + Len(tail) + 3
            /\ \A k \in 1..len :
                  LET q == len - k + 1
                  IN  IF q % 4 = 0 THEN text[k] = "."
                      ELSE text[k] = GivenInt[n - (q - (q \div 4)) + 1]
            /\ SubSeq(text, len + 1, len + Len(tail)) = tail
            /\ SubSeq(text, Len(text) - 2, Len(text)) = <<" ", "G", "s">>
            /\ fmt.input = <<"5", "0", "0", "0", "0", "0">>
                  => text = <<"5", "0", "0", ".", "0", "0", "0", " ", "G", "s">>
            /\ fmt.input = <<"1", "2", "0", "0", "0", "0", "0">>
                  => text = <<"1", ".", "2", "0", "0", ".", "0", "0", "0", " ", "G", "s">>
            /\ fmt.input = <<"1", "5", "0">>
                  => text = <<"1", "5", "0", " ", "G", "s">>
            /\ fmt.input = <<"1", "0", "0", "0", "0", "0", "0", ".", "5", "0">>
                  => text = <<"1", ".", "0", "0", "0", ".", "0", "0", "0", ".", "5", "0",
                              " ", "G", "s">>

\* C18 witness: 1000000.50 has been rendered as '1.000.000.50 Gs'.
C18_Witness ==
    /\ fmt.done
    /\ fmt.input = <<"1", "0", "0", "0", "0", "0", "0", ".", "5", "0">>
    /\ fmt.text = <<"1", ".", "0", "0", "0", ".", "0", "0", "0", ".", "5", "0",
                    " ", "G", "s">>

\* C19 (as claimed): for every registered user get_user shows the session
\* id of the latest set_open_session that no clear_open_session followed,
\* and None when there is none; an unregistered user has no record.
C19_LatestOpenSession ==
    \A u \in Users :
        IF get_user(u).registered
        THEN /\ get_user(u).business_id \in BusinessIds
             /\ get_user(u).open_session =
                    IF latest[u] \in SessionIds THEN latest[u] ELSE None
        ELSE get_user(u) = Unregistered /\ latest[u] = "never"

\* No command of the user is in flight.
Quiescent == \A slot \in Slots : running[slot].pc \in {"idle", "done"}

C21_LinkageFollowsBackend ==
    /\ task.pc \in {"idle", "done"} =>
          LET tracked == user_data[Cashier].current_session_id
          IN  /\ tracked = None \/ tracked = history.opened
              /\ history.lastok = "close" => tracked = None
    /\ ~history.reclosed

\* C22: a close command whose backend call fails with a typed error, of
\* whatever code, leaves the tracked session id as it was, answers with the
\* text that the error's code selects (NOT_FOUND, INVALID_STATE, any other),
\* and the user's next close command sends a request for the same id.
C22_TypedCloseFailureKeepsId ==
    /\ task.cmd = "close" /\ FailedTyped(task)
          => /\ Linkage = task.sid0
             /\ Linkage = task.calls[1].session_id
             /\ task.msgs[1].text =
                   IF task.results[1].code = "NOT_FOUND" THEN "CLOSE_NOT_FOUND"
                   ELSE IF task.results[1].code = "INVALID_STATE" THEN "CLOSE_INVALID_STATE"
                   ELSE "API_ERROR"
    /\ ~history.dropped

\* C22 witness: after a close request that failed with a typed error, the
\* next close command has sent a request for the same session id.
C22_Witness ==
    /\ task.pc = "await" /\ task.cmd = "close"
    /\ history.failed # None
    /\ task.calls[1].session_id = history.failed
    /\ Linkage = history.failed

\* C23: a status command leaves the tracked session id as it was on every
\* path; with a tracked id it calls get_session once, for that id, shows
\* the open view when the backend's status is OPEN and the closed view
\* otherwise, and keeps the id also when the backend reports the session
\* as closed or unknown.
C23_StatusKeepsLinkage ==
    Ran("status") =>
        /\ Linkage = task.sid0
        /\ task.sid0 # None =>
              task.calls = <<Call("get_session", None, None, NaN, NaN, <<>>, task.sid0)>>
        /\ Returned =>
              task.msgs[1].text = IF task.replies[1].body.status = "OPEN"
                                  THEN "STATUS_OPEN" ELSE "STATUS_CLOSED"

\* C23 witness: the backend reported the tracked session as closed, the
\* closed view was sent, and the id is still tracked.
C23_Witness ==
    /\ Ran("status") /\ Returned
    /\ task.replies[1].body.status = "CLOSED"
    /\ task.msgs[1].text = "STATUS_CLOSED" /\ task.msgs[1].ok
    /\ task.sid0 # None /\ Linkage = task.sid0

\* C24: an open command with a valid amount calls the backend whether or
\* not a session id is tracked, and when the call returns a session record
\* the tracked id becomes the returned id, whatever was tracked before;
\* with an id tracked, only a failed backend call keeps it.
C24_OpenIgnoresLinkage ==
    Ran("open") /\ Len(task.args) >= 1 /\ Numeric(task.args[1])
                /\ GtZero(Decimal(task.args[1]))
        => /\ Len(task.calls) = 1
           /\ task.calls[1].op = "open_cash_session"
           /\ Returned => Linkage = task.replies[1].body.id
           /\ task.pc = "done" /\ ~Returned => Linkage = task.sid0

\* C24 witness: with s1 tracked an open command called the backend, which
\* returned s2, and s2 is tracked now.
C24_Witness ==
    /\ Ran("open") /\ Returned
    /\ task.sid0 = "s1"
    /\ task.calls[1].op = "open_cash_session"
    /\ task.replies[1].body.id = "s2"
    /\ Linkage = "s2"
    /\ task.msgs[1].text = "OPEN_OK" /\ task.msgs[1].ok

====
